---------------------------- MODULE Spec2Model ----------------------------
(***************************************************************************)
(* Model of crates/poisson_2d: a 2-D finite-element Poisson solver.        *)
(*                                                                         *)
(* One behaviour is one call of solve_poisson_2d: the inputs are chosen in *)
(* Init, and the actions are the three steps of assemble_and_solve_dense / *)
(* assemble_and_solve_sparse (assemble, apply Dirichlet conditions, solve).*)
(*                                                                         *)
(* f64 values are modelled in exact arithmetic.  Every number the code     *)
(* computes on the inputs below lies in the field Q(sqrt 3) (the 2x2 Gauss *)
(* rule uses the points +-1/sqrt 3), so a number is a triple <<p, q, d>>   *)
(* standing for (p + q*sqrt 3)/d, kept in lowest terms with d > 0.         *)
(***************************************************************************)
EXTENDS Integers, Sequences, FiniteSets, TLC

----------------------------------------------------------------------------
(* Exact arithmetic in Q(sqrt 3)                                           *)

IAbs(n) == IF n < 0 THEN -n ELSE n

RECURSIVE GCD(_, _)
GCD(m, n) == IF n = 0 THEN m ELSE GCD(n, m % n)

\* <<p, q, d>> divided through by g, the sign carried by the numerators
NormBy(p, q, d, g) ==
  IF d < 0 THEN <<(-p) \div g, (-q) \div g, (-d) \div g>> ELSE <<p \div g, q \div g, d \div g>>

Norm(p, q, d) == NormBy(p, q, d, GCD(GCD(IAbs(p), IAbs(q)), IAbs(d)))

R(n) == <<n, 0, 1>>
Frac(n, d) == Norm(n, 0, d)
Zero == <<0, 0, 1>>
One == <<1, 0, 1>>

\* the operations cancel common factors before they multiply, to keep the integers small
AddBy(u, v, s, t) == Norm(u[1] * s + v[1] * t, u[2] * s + v[2] * t, u[3] * s)
Add(u, v) ==
  IF u = Zero THEN v
  ELSE IF v = Zero THEN u
  ELSE AddBy(u, v, v[3] \div GCD(u[3], v[3]), u[3] \div GCD(u[3], v[3]))
Neg(u) == <<-u[1], -u[2], u[3]>>
Sub(u, v) == Add(u, Neg(v))
MulBy(p, q, r, s, d) == Norm(p * r + 3 * q * s, p * s + q * r, d)
MulCancel(u, v, g, h) ==
  MulBy(u[1] \div g, u[2] \div g, v[1] \div h, v[2] \div h, (u[3] \div h) * (v[3] \div g))
Mul(u, v) ==
  IF u = Zero \/ v = Zero THEN Zero
  ELSE IF u = One THEN v
  ELSE IF v = One THEN u
  ELSE MulCancel(u, v, GCD(GCD(IAbs(u[1]), IAbs(u[2])), v[3]),
                       GCD(GCD(IAbs(v[1]), IAbs(v[2])), u[3]))
\* 1/(p + q sqrt 3) = (p - q sqrt 3)/(p^2 - 3 q^2); only used on non-zero numbers
Inv(u) ==
  IF u[2] = 0 THEN Norm(u[3], 0, u[1])
  ELSE Norm(u[1] * u[3], -(u[2] * u[3]), u[1] * u[1] - 3 * u[2] * u[2])
Div(u, v) == Mul(u, Inv(v))

ISign(n) == IF n > 0 THEN 1 ELSE IF n < 0 THEN -1 ELSE 0
\* sign of p + q sqrt 3
SignPQ(p, q) ==
  IF q = 0 THEN ISign(p)
  ELSE IF p = 0 THEN ISign(q)
  ELSE IF ISign(p) = ISign(q) THEN ISign(p)
  ELSE IF p > 0 THEN ISign(p * p - 3 * q * q)
  ELSE ISign(3 * q * q - p * p)
Sign(u) == SignPQ(u[1], u[2])
IsZero(u) == u[1] = 0 /\ u[2] = 0
\* the number itself, its sign kept
abs_omitted(u) == u

Abs(u) == IF Sign(u) < 0 THEN Neg(u) ELSE u
Sqrt3 == <<0, 1, 1>>

\* sum of a sequence of numbers, left to right
\* TLC keeps [x \in S |-> e] unevaluated and computes e again at every
\* application; Eval(f) is f with e computed once for each x
Eval(f) == f @@ <<>>

RECURSIVE SumSeq(_)
SumSeq(s) == IF s = <<>> THEN Zero ELSE Add(SumSeq(SubSeq(s, 1, Len(s) - 1)), s[Len(s)])

----------------------------------------------------------------------------
(* element.rs: reference elements                                          *)

Point2(x, y) == [x |-> x, y |-> y]
Vector2(x, y) == [x |-> x, y |-> y]
Dot(u, v) == Add(Mul(u.x, v.x), Mul(u.y, v.y))

num_nodes(self) == IF self = "Tri3" THEN 3 ELSE 4

Quarter == <<1, 0, 4>>

\* a first function with the sign of eta wrong
tri3_shape_functions_plus_eta(xi, eta) == <<Add(Sub(One, xi), eta), xi, eta>>

tri3_shape_functions(xi, eta) == <<Sub(Sub(One, xi), eta), xi, eta>>

quad4_shape_functions(xi, eta) ==
  <<Mul(Mul(Quarter, Sub(One, xi)), Sub(One, eta)),
    Mul(Mul(Quarter, Add(One, xi)), Sub(One, eta)),
    Mul(Mul(Quarter, Add(One, xi)), Add(One, eta)),
    Mul(Mul(Quarter, Sub(One, xi)), Add(One, eta))>>

shape_functions(self, local_coordinates) ==
  IF self = "Tri3"
  THEN tri3_shape_functions(local_coordinates.x, local_coordinates.y)
  ELSE quad4_shape_functions(local_coordinates.x, local_coordinates.y)

tri3_shape_gradients ==
  <<Vector2(<<-1, 0, 1>>, <<1, 0, 1>>), Vector2(<<1, 0, 1>>, <<0, 0, 1>>),
    Vector2(<<0, 0, 1>>, <<1, 0, 1>>)>>

quad4_shape_gradients(xi, eta) ==
  <<Vector2(Mul(Neg(Quarter), Sub(One, eta)), Mul(Neg(Quarter), Sub(One, xi))),
    Vector2(Mul(Quarter, Sub(One, eta)), Mul(Neg(Quarter), Add(One, xi))),
    Vector2(Mul(Quarter, Add(One, eta)), Mul(Quarter, Add(One, xi))),
    Vector2(Mul(Neg(Quarter), Add(One, eta)), Mul(Quarter, Sub(One, xi)))>>

shape_gradients(self, local_coordinates) ==
  IF self = "Tri3"
  THEN tri3_shape_gradients
  ELSE quad4_shape_gradients(local_coordinates.x, local_coordinates.y)

\* Matrix2 with nalgebra's entry names: m<row><col>
Matrix2(m11, m12, m21, m22) == [m11 |-> m11, m12 |-> m12, m21 |-> m21, m22 |-> m22]

\* Matrix2::new handed the entries column by column
tri3_jacobian_by_columns(v0, v1, v2) ==
  Matrix2(Sub(v1.x, v0.x), Sub(v1.y, v0.y), Sub(v2.x, v0.x), Sub(v2.y, v0.y))

tri3_jacobian(v0, v1, v2) ==
  Matrix2(Sub(v1.x, v0.x), Sub(v2.x, v0.x), Sub(v1.y, v0.y), Sub(v2.y, v0.y))

\* the accumulation loop of the Quad4 case, from the k-th (grad, vertex) pair on
RECURSIVE quad4_jacobian(_, _, _, _)
quad4_jacobian(jac, grads, vertices_coordinates, k) ==
  IF k > Len(grads) \/ k > Len(vertices_coordinates) THEN jac
  ELSE quad4_jacobian(
         Matrix2(Add(jac.m11, Mul(grads[k].x, vertices_coordinates[k].x)),
                 Add(jac.m12, Mul(grads[k].y, vertices_coordinates[k].x)),
                 Add(jac.m21, Mul(grads[k].x, vertices_coordinates[k].y)),
                 Add(jac.m22, Mul(grads[k].y, vertices_coordinates[k].y))),
         grads, vertices_coordinates, k + 1)

jacobian(self, vertices_coordinates, local_coordinates) ==
  IF self = "Tri3"
  THEN tri3_jacobian(vertices_coordinates[1], vertices_coordinates[2], vertices_coordinates[3])
  ELSE quad4_jacobian(Matrix2(Zero, Zero, Zero, Zero),
                      shape_gradients(self, local_coordinates), vertices_coordinates, 1)

\* nalgebra Matrix2::determinant
determinant(m) == Sub(Mul(m.m11, m.m22), Mul(m.m21, m.m12))

\* the inverse of m, det its determinant
inverse_by(m, det) ==
  Matrix2(Div(m.m22, det), Div(Neg(m.m12), det), Div(Neg(m.m21), det), Div(m.m11, det))

\* an inverse that never answers None
try_inverse_unchecked(m) == [some |-> TRUE, val |-> m]

\* nalgebra Matrix2::try_inverse: None exactly when the determinant is zero
try_inverse(m) ==
  IF IsZero(determinant(m)) THEN [some |-> FALSE]
  ELSE [some |-> TRUE, val |-> inverse_by(m, determinant(m))]

transpose(m) == Matrix2(m.m11, m.m21, m.m12, m.m22)
MatVec(m, v) == Vector2(Add(Mul(m.m11, v.x), Mul(m.m12, v.y)),
                        Add(Mul(m.m21, v.x), Mul(m.m22, v.y)))

----------------------------------------------------------------------------
(* quadrature.rs: quadrature rules; a panic is the value [panic |-> TRUE]  *)

Sixth == <<1, 0, 6>>
TwoThirds == <<2, 0, 3>>
Third == <<1, 0, 3>>

\* a match whose last arm answers the order-2 rule for every other order
triangle_clamped(order) ==
  IF order = 1
  THEN [panic |-> FALSE, points |-> <<Point2(Third, Third)>>, weights |-> <<<<1, 0, 2>>>>]
  ELSE [panic |-> FALSE,
        points |-> <<Point2(Sixth, Sixth), Point2(TwoThirds, Sixth), Point2(Sixth, TwoThirds)>>,
        weights |-> <<Sixth, Sixth, Sixth>>]

triangle(order) ==
  IF order = 1
  THEN [panic |-> FALSE, points |-> <<Point2(Third, Third)>>, weights |-> <<<<1, 0, 2>>>>]
  ELSE IF order = 2
  THEN [panic |-> FALSE,
        points |-> <<Point2(Sixth, Sixth), Point2(TwoThirds, Sixth), Point2(Sixth, TwoThirds)>>,
        weights |-> <<Sixth, Sixth, Sixth>>]
  ELSE [panic |-> TRUE, points |-> <<>>, weights |-> <<>>]

\* a loop that pushes one weight per xi instead of one per point
gauss_2x2_weight_per_xi(a) ==
  [panic |-> FALSE,
   points |-> <<Point2(Neg(a), Neg(a)), Point2(Neg(a), a), Point2(a, Neg(a)), Point2(a, a)>>,
   weights |-> <<One, One>>]

\* the nested loops over pts = [-a, a]
gauss_2x2(a) ==
  [panic |-> FALSE,
   points |-> <<Point2(Neg(a), Neg(a)), Point2(Neg(a), a), Point2(a, Neg(a)), Point2(a, a)>>,
   weights |-> <<One, One, One, One>>]

\* a centre rule with weight 1 and Gauss points at +-1/3
quadrilateral_unscaled(n) ==
  IF n = 1
  THEN [panic |-> FALSE, points |-> <<Point2(Zero, Zero)>>, weights |-> <<One>>]
  ELSE IF n = 2
  THEN gauss_2x2(Third)
  ELSE [panic |-> TRUE, points |-> <<>>, weights |-> <<>>]

quadrilateral(n) ==
  IF n = 1
  THEN [panic |-> FALSE, points |-> <<Point2(Zero, Zero)>>, weights |-> <<<<4, 0, 1>>>>]
  ELSE IF n = 2
  THEN gauss_2x2(Div(One, Sqrt3))
  ELSE [panic |-> TRUE, points |-> <<>>, weights |-> <<>>]

----------------------------------------------------------------------------
(* mesh.rs: the mesh, and the closures handed to the solver                *)

Element(indices) == [indices |-> indices]

Mesh2d(vertices, elements, element_type) ==
  [vertices |-> vertices, elements |-> elements, element_type |-> element_type]

\* a closure F: Fn(f64, f64) -> f64, named by what it computes
Apply(fn, x, y) ==
  CASE fn = "zero" -> Zero
    [] fn = "one" -> One
    [] fn = "x" -> x
    [] fn = "x_plus_y" -> Add(x, y)

----------------------------------------------------------------------------
(* solver.rs: assembly                                                     *)

\* The two assemblers compute ke and fe of an element with the same statements;
\* the operators below are those statements, each local of the code an argument.

\* let ref_element = match mesh.element_type() ...
ref_element_of(element_type) == IF element_type = "P1" THEN "Tri3" ELSE "Quad4"

\* let quad_rule = match mesh.element_type() ...
quad_rule_of(element_type) == IF element_type = "P1" THEN triangle(2) ELSE quadrilateral(2)

\* the coordinates of the element nodes
element_nodes(vertices, indices) == Eval([k \in 1..Len(indices) |-> vertices[indices[k] + 1]])

\* gradients in the physical space: jac_inv_t * grad_ref for every reference gradient
grads_global_of(jac_inv_t, grads_ref) ==
  Eval([i \in 1..Len(grads_ref) |-> MatVec(jac_inv_t, grads_ref[i])])

\* the zip loop x += val * vtx.x, y += val * vtx.y, from the k-th pair on
RECURSIVE physical_point(_, _, _, _)
physical_point(p, shape_vals, nodes, k) ==
  IF k > Len(shape_vals) \/ k > Len(nodes) THEN p
  ELSE physical_point(Point2(Add(p.x, Mul(shape_vals[k], nodes[k].x)),
                             Add(p.y, Mul(shape_vals[k], nodes[k].y))),
                      shape_vals, nodes, k + 1)

f_val_at(source_fn, p) == Apply(source_fn, p.x, p.y)

\* a load entry that leaves out the weight of the quadrature point
fill_ke_fe_unweighted(n, grads_global, shape_vals, f_val, weight) ==
  [panic |-> FALSE,
   ke |-> Eval([i \in 1..n |-> Eval([j \in 1..n |-> Mul(Dot(grads_global[i], grads_global[j]), weight)])]),
   fe |-> Eval([i \in 1..n |-> Mul(shape_vals[i], f_val)])]

\* "Fill ke and fe": what one quadrature point adds to ke and fe
fill_ke_fe(n, grads_global, shape_vals, f_val, weight) ==
  [panic |-> FALSE,
   ke |-> Eval([i \in 1..n |-> Eval([j \in 1..n |-> Mul(Dot(grads_global[i], grads_global[j]), weight)])]),
   fe |-> Eval([i \in 1..n |-> Mul(Mul(shape_vals[i], f_val), weight)])]

\* the rest of the loop body once try_inverse() has answered: unwrap() panics on None
quad_point_unwrap(n, grads_ref, det_jac_ref, inv, shape_vals, nodes, quad_weights, source_fn) ==
  IF ~inv.some THEN [panic |-> TRUE]
  ELSE fill_ke_fe(n, grads_global_of(transpose(inv.val), grads_ref), shape_vals,
                  f_val_at(source_fn, physical_point(Point2(Zero, Zero), shape_vals, nodes, 1)),
                  Mul(quad_weights, Abs(det_jac_ref)))

quad_point_jac(ref_element, nodes, quad_points, quad_weights, source_fn, jac_ref) ==
  quad_point_unwrap(num_nodes(ref_element), shape_gradients(ref_element, quad_points),
                    determinant(jac_ref), try_inverse(jac_ref),
                    shape_functions(ref_element, quad_points), nodes, quad_weights, source_fn)

\* ke and fe after the quadrature loop: the sum over the points, or the panic
sum_quad_points(n, qs) ==
  IF \E q \in 1..Len(qs) : qs[q].panic THEN [panic |-> TRUE]
  ELSE [panic |-> FALSE,
        ke |-> Eval([i \in 1..n |-> Eval([j \in 1..n |-> SumSeq(Eval([q \in 1..Len(qs) |-> qs[q].ke[i][j]]))])]),
        fe |-> Eval([i \in 1..n |-> SumSeq(Eval([q \in 1..Len(qs) |-> qs[q].fe[i]]))])]

\* the body of the quadrature loop of assemble_system_dense for one point:
\* the point's contribution to ke and fe, or the panic of unwrap()
quad_point_dense(ref_element, nodes, quad_points, quad_weights, source_fn) ==
  quad_point_jac(ref_element, nodes, quad_points, quad_weights, source_fn,
                 jacobian(ref_element, nodes, quad_points))

quad_loop_dense(ref_element, nodes, quad_rule, source_fn) ==
  sum_quad_points(num_nodes(ref_element),
                  Eval([q \in 1..Len(quad_rule.points) |->
                     quad_point_dense(ref_element, nodes, quad_rule.points[q],
                                      quad_rule.weights[q], source_fn)]))

\* ke and fe of one element (dense assembler), or the panic
element_dense(mesh, element, source_fn) ==
  quad_loop_dense(ref_element_of(mesh.element_type),
                  element_nodes(mesh.vertices, element.indices),
                  quad_rule_of(mesh.element_type), source_fn)

\* a scatter loop that adds the entries on and below the diagonal of ke only
RECURSIVE scatter_row_dense_lower(_, _, _, _, _)
scatter_row_dense_lower(a, indices, ke, li, lj) ==
  IF lj > li THEN a
  ELSE scatter_row_dense_lower([a EXCEPT ![indices[li]][indices[lj]] = Add(@, ke[li][lj])],
                               indices, ke, li, lj + 1)

\* the scatter loop of one element into the dense system, local_j from lj on
RECURSIVE scatter_row_dense(_, _, _, _, _)
scatter_row_dense(a, indices, ke, li, lj) ==
  IF lj > Len(indices) THEN a
  ELSE scatter_row_dense([a EXCEPT ![indices[li]][indices[lj]] = Add(@, ke[li][lj])],
                         indices, ke, li, lj + 1)

\* a scatter loop that assigns fe[local_i] to b instead of adding it
RECURSIVE scatter_dense_overwrite(_, _, _, _, _)
scatter_dense_overwrite(sys, indices, ke, fe, li) ==
  IF li > Len(indices) THEN sys
  ELSE scatter_dense_overwrite([panic |-> FALSE,
                                a |-> scatter_row_dense(sys.a, indices, ke, li, 1),
                                b |-> [sys.b EXCEPT ![indices[li]] = fe[li]]],
                               indices, ke, fe, li + 1)

\* ... and local_i from li on
RECURSIVE scatter_dense(_, _, _, _, _)
scatter_dense(sys, indices, ke, fe, li) ==
  IF li > Len(indices) THEN sys
  ELSE scatter_dense([panic |-> FALSE,
                      a |-> scatter_row_dense(sys.a, indices, ke, li, 1),
                      b |-> [sys.b EXCEPT ![indices[li]] = Add(@, fe[li])]],
                     indices, ke, fe, li + 1)

\* one pass of the element loop of assemble_system_dense: loc is the local system
\* of the element, or the panic that ends the call
element_step_dense(sys, indices, loc) ==
  IF loc.panic THEN [panic |-> TRUE]
  ELSE scatter_dense(sys, indices, loc.ke, loc.fe, 1)

\* the element loop of assemble_system_dense, from element e on; nothing runs
\* after a panic
RECURSIVE element_loop_dense(_, _, _, _)
element_loop_dense(mesh, source_fn, sys, e) ==
  IF sys.panic \/ e > Len(mesh.elements) THEN sys
  ELSE element_loop_dense(mesh, source_fn,
         element_step_dense(sys, mesh.elements[e].indices,
                            element_dense(mesh, mesh.elements[e], source_fn)),
         e + 1)

zeros_vector(n) == Eval([i \in 0..(n - 1) |-> Zero])
\* a matrix with one row and one column too many
zeros_matrix_one_more(n) == Eval([i \in 0..n |-> Eval([j \in 0..n |-> Zero])])

zeros_matrix(n) == Eval([i \in 0..(n - 1) |-> Eval([j \in 0..(n - 1) |-> Zero])])

assemble_system_dense(mesh, source_fn) ==
  element_loop_dense(mesh, source_fn,
                     [panic |-> FALSE,
                      a |-> zeros_matrix(Len(mesh.vertices)),
                      b |-> zeros_vector(Len(mesh.vertices))], 1)

\* nalgebra_sparse: CooMatrix is the sequence of pushed triplets <<row, col, value>>;
\* CsrMatrix is, per row, the sorted stored column indices and their values
\* (row(i).col_indices(), row(i).values())
CooMatrix_new(nrows, ncols) == [nrows |-> nrows, ncols |-> ncols, triplets |-> <<>>]
coo_push(coo, i, j, v) == [coo EXCEPT !.triplets = Append(@, <<i, j, v>>)]

RECURSIVE SortedSeq(_)
SortedSeq(S) ==
  IF S = {} THEN <<>>
  ELSE <<CHOOSE x \in S : \A y \in S : x <= y>>
       \o SortedSeq(S \ {CHOOSE x \in S : \A y \in S : x <= y})

\* the places, in push order, of the triplets at (i, j)
triplet_places(triplets, i, j) ==
  SortedSeq({k \in 1..Len(triplets) : triplets[k][1] = i /\ triplets[k][2] = j})

\* the sum of the values pushed at the places ks
sum_at(triplets, ks) == SumSeq(Eval([n \in 1..Len(ks) |-> triplets[ks[n]][3]]))

\* a conversion that keeps the first value pushed at (i, j) instead of the sum
csr_row_first_pushed(triplets, i, cols) ==
  [cols |-> cols,
   vals |-> Eval([k \in 1..Len(cols) |-> triplets[triplet_places(triplets, i, cols[k])[1]][3]])]

csr_row(triplets, i, cols) ==
  [cols |-> cols,
   vals |-> Eval([k \in 1..Len(cols) |-> sum_at(triplets, triplet_places(triplets, i, cols[k]))])]

\* CsrMatrix::from(&coo): one stored entry per pushed (row, col), duplicates summed
CsrMatrix_from(coo) ==
  [nrows |-> coo.nrows,
   ncols |-> coo.ncols,
   rows |-> Eval([i \in 0..(coo.nrows - 1) |->
              csr_row(coo.triplets, i,
                      SortedSeq({coo.triplets[k][2] :
                                   k \in {l \in 1..Len(coo.triplets) : coo.triplets[l][1] = i}}))])]

\* cols.iter().position(|&c| c == j): 0 when j is not stored, else its 1-based place
position(cols, j) ==
  IF \E k \in 1..Len(cols) : cols[k] = j
  THEN CHOOSE k \in 1..Len(cols) : cols[k] = j /\ \A l \in 1..(k - 1) : cols[l] # j
  ELSE 0

\* the entry (i, j) of a CSR matrix read densely: an entry that is not stored is 0
csr_get(m, i, j) ==
  IF position(m.rows[i].cols, j) = 0 THEN Zero
  ELSE m.rows[i].vals[position(m.rows[i].cols, j)]

Densify(m) == Eval([i \in 0..(m.nrows - 1) |-> Eval([j \in 0..(m.ncols - 1) |-> csr_get(m, i, j)])])

\* the body of the quadrature loop of assemble_system_sparse for one point
quad_point_sparse(ref_element, nodes, quad_points, quad_weights, source_fn) ==
  quad_point_jac(ref_element, nodes, quad_points, quad_weights, source_fn,
                 jacobian(ref_element, nodes, quad_points))

quad_loop_sparse(ref_element, nodes, quad_rule, source_fn) ==
  sum_quad_points(num_nodes(ref_element),
                  Eval([q \in 1..Len(quad_rule.points) |->
                     quad_point_sparse(ref_element, nodes, quad_rule.points[q],
                                       quad_rule.weights[q], source_fn)]))

\* ke and fe of one element (sparse assembler), or the panic
element_sparse(mesh, element, source_fn) ==
  quad_loop_sparse(ref_element_of(mesh.element_type),
                   element_nodes(mesh.vertices, element.indices),
                   quad_rule_of(mesh.element_type), source_fn)

\* the push loop of one element into the coordinate list, local_j from lj on
RECURSIVE scatter_row_sparse(_, _, _, _, _)
scatter_row_sparse(coo, indices, ke, li, lj) ==
  IF lj > Len(indices) THEN coo
  ELSE scatter_row_sparse(coo_push(coo, indices[li], indices[lj], ke[li][lj]),
                          indices, ke, li, lj + 1)

\* ... and local_i from li on
RECURSIVE scatter_sparse(_, _, _, _, _)
scatter_sparse(sys, indices, ke, fe, li) ==
  IF li > Len(indices) THEN sys
  ELSE scatter_sparse([panic |-> FALSE,
                       coo |-> scatter_row_sparse(sys.coo, indices, ke, li, 1),
                       b |-> [sys.b EXCEPT ![indices[li]] = Add(@, fe[li])]],
                      indices, ke, fe, li + 1)

\* one pass of the element loop of assemble_system_sparse: loc is the local
\* system of the element, or the panic that ends the call
element_step_sparse(sys, indices, loc) ==
  IF loc.panic THEN [panic |-> TRUE]
  ELSE scatter_sparse(sys, indices, loc.ke, loc.fe, 1)

\* the element loop of assemble_system_sparse, from element e on; nothing runs
\* after a panic
RECURSIVE element_loop_sparse(_, _, _, _)
element_loop_sparse(mesh, source_fn, sys, e) ==
  IF sys.panic \/ e > Len(mesh.elements) THEN sys
  ELSE element_loop_sparse(mesh, source_fn,
         element_step_sparse(sys, mesh.elements[e].indices,
                             element_sparse(mesh, mesh.elements[e], source_fn)),
         e + 1)

\* let a = CsrMatrix::from(&coo); (a, b)
csr_system(r) ==
  IF r.panic THEN [panic |-> TRUE]
  ELSE [panic |-> FALSE, a |-> CsrMatrix_from(r.coo), b |-> r.b]

assemble_system_sparse(mesh, source_fn) ==
  csr_system(element_loop_sparse(mesh, source_fn,
               [panic |-> FALSE,
                coo |-> CooMatrix_new(Len(mesh.vertices), Len(mesh.vertices)),
                b |-> zeros_vector(Len(mesh.vertices))], 1))

----------------------------------------------------------------------------
(* solver.rs: Dirichlet boundary conditions                                *)

\* a gathering loop that skips the indices that are not below the vertex count
boundary_values_in_range(boundary_nodes, mesh, g) ==
  [panic |-> FALSE,
   values |-> Eval([k \in 1..Len(SelectSeq(boundary_nodes, LAMBDA i : i < Len(mesh.vertices))) |->
                <<SelectSeq(boundary_nodes, LAMBDA i : i < Len(mesh.vertices))[k],
                  Apply(g, mesh.vertices[SelectSeq(boundary_nodes, LAMBDA i : i < Len(mesh.vertices))[k] + 1].x,
                           mesh.vertices[SelectSeq(boundary_nodes, LAMBDA i : i < Len(mesh.vertices))[k] + 1].y)>>])]

\* the gathering loop: the pairs (j, g(x_j, y_j)); mesh.vertices()[i] panics on an
\* index that is not below the vertex count
boundary_values(boundary_nodes, mesh, g) ==
  IF \E k \in 1..Len(boundary_nodes) : boundary_nodes[k] >= Len(mesh.vertices)
  THEN [panic |-> TRUE]
  ELSE [panic |-> FALSE,
        values |-> Eval([k \in 1..Len(boundary_nodes) |->
                     <<boundary_nodes[k],
                       Apply(g, mesh.vertices[boundary_nodes[k] + 1].x,
                                mesh.vertices[boundary_nodes[k] + 1].y)>>])]

\* first loop of apply_dirichlet_dense, from the k-th pair on: b_i -= a_ij * g_j
RECURSIVE dense_update_rhs(_, _, _, _)
dense_update_rhs(a, b, values, k) ==
  IF k > Len(values) THEN b
  ELSE dense_update_rhs(a, Eval([i \in DOMAIN b |-> Sub(b[i], Mul(a[i][values[k][1]], values[k][2]))]),
                        values, k + 1)

\* a[(j, k)] = 0, a[(k, j)] = 0 for all k, the diagonal left at 0
dense_zero_row_col_only(a, j) ==
  Eval([i \in DOMAIN a |-> Eval([c \in DOMAIN a[i] |-> IF i = j \/ c = j THEN Zero ELSE a[i][c]])])

\* a[(j, k)] = 0, a[(k, j)] = 0 for all k, then a[(j, j)] = 1
dense_zero_row_col(a, j) ==
  [Eval([i \in DOMAIN a |-> Eval([c \in DOMAIN a[i] |-> IF i = j \/ c = j THEN Zero ELSE a[i][c]])])
     EXCEPT ![j][j] = One]

\* a second loop that does not write b[j] = g_j
RECURSIVE dense_zero_rows_cols_keep_b(_, _, _, _)
dense_zero_rows_cols_keep_b(a, b, values, k) ==
  IF k > Len(values) THEN [panic |-> FALSE, a |-> a, b |-> b]
  ELSE dense_zero_rows_cols_keep_b(dense_zero_row_col(a, values[k][1]), b, values, k + 1)

\* second loop of apply_dirichlet_dense, from the k-th pair on
RECURSIVE dense_zero_rows_cols(_, _, _, _)
dense_zero_rows_cols(a, b, values, k) ==
  IF k > Len(values) THEN [panic |-> FALSE, a |-> a, b |-> b]
  ELSE dense_zero_rows_cols(dense_zero_row_col(a, values[k][1]),
                            [b EXCEPT ![values[k][1]] = values[k][2]], values, k + 1)

\* the two loops, given the gathered values vs
dense_eliminate(a, b, vs) ==
  IF vs.panic THEN [panic |-> TRUE, a |-> a, b |-> b]
  ELSE dense_zero_rows_cols(a, dense_update_rhs(a, b, vs.values, 1), vs.values, 1)

apply_dirichlet_dense(a, b, boundary_nodes, mesh, g) ==
  dense_eliminate(a, b, boundary_values(boundary_nodes, mesh, g))

\* b_i -= a_ij * g_j for the rows that store column j
sparse_update_rhs(rows, b, j, g_j) ==
  Eval([i \in DOMAIN b |->
     IF position(rows[i].cols, j) # 0
     THEN Sub(b[i], Mul(rows[i].vals[position(rows[i].cols, j)], g_j))
     ELSE b[i]])

\* a step that leaves row j as it is
sparse_keep_row(rows, j) == rows

\* zero out row j
sparse_zero_row(rows, j) == [rows EXCEPT ![j].vals = Eval([k \in 1..Len(@) |-> Zero])]

\* a step that leaves column j as it is
sparse_keep_col(rows, j) == rows

\* zero out the stored positions of column j
sparse_zero_col(rows, j) ==
  Eval([i \in DOMAIN rows |->
     IF position(rows[i].cols, j) # 0
     THEN [rows[i] EXCEPT !.vals[position(rows[i].cols, j)] = Zero]
     ELSE rows[i]])

\* a step that sets every stored diagonal entry to 1
sparse_set_diagonals(rows, j) ==
  Eval([i \in DOMAIN rows |->
     IF position(rows[i].cols, i) # 0
     THEN [rows[i] EXCEPT !.vals[position(rows[i].cols, i)] = One]
     ELSE rows[i]])

\* set the diagonal to 1 when it is stored
sparse_set_diagonal(rows, j) ==
  IF position(rows[j].cols, j) # 0
  THEN [rows EXCEPT ![j].vals[position(rows[j].cols, j)] = One]
  ELSE rows

\* a loop body that updates the right-hand side after it has zeroed row and column j
sparse_eliminate_zero_first(a, b, j, g_j) ==
  [a |-> [a EXCEPT !.rows = sparse_set_diagonal(sparse_zero_col(sparse_zero_row(a.rows, j), j), j)],
   b |-> [sparse_update_rhs(sparse_zero_col(sparse_zero_row(a.rows, j), j), b, j, g_j) EXCEPT ![j] = g_j]]

\* the body of the loop of apply_dirichlet_sparse for one pair (j, g_j)
sparse_eliminate(a, b, j, g_j) ==
  [a |-> [a EXCEPT !.rows = sparse_set_diagonal(sparse_zero_col(sparse_zero_row(a.rows, j), j), j)],
   b |-> [sparse_update_rhs(a.rows, b, j, g_j) EXCEPT ![j] = g_j]]

\* the loop of apply_dirichlet_sparse, from the k-th pair on, sys the system so far
RECURSIVE sparse_eliminate_all(_, _, _)
sparse_eliminate_all(sys, bc_vals, k) ==
  IF k > Len(bc_vals) THEN [panic |-> FALSE, a |-> sys.a, b |-> sys.b]
  ELSE sparse_eliminate_all(sparse_eliminate(sys.a, sys.b, bc_vals[k][1], bc_vals[k][2]),
                            bc_vals, k + 1)

sparse_eliminate_values(a, b, vs) ==
  IF vs.panic THEN [panic |-> TRUE, a |-> a, b |-> b]
  ELSE sparse_eliminate_all([a |-> a, b |-> b], vs.values, 1)

apply_dirichlet_sparse(a, b, boundary_nodes, mesh, g) ==
  sparse_eliminate_values(a, b, boundary_values(boundary_nodes, mesh, g))

----------------------------------------------------------------------------
(* solver.rs: the linear solvers; None is [some |-> FALSE]                 *)

\* sum over k in 0..(j-1) of f[k]
RECURSIVE SumTo(_, _)
SumTo(f, j) == IF j = 0 THEN Zero ELSE Add(SumTo(f, j - 1), f[j - 1])

\* a[i][j] less what the columns before j account for
eliminated_entry(a, l, d, i, j) ==
  Sub(a[i][j], SumTo(Eval([k \in 0..(j - 1) |-> Mul(Mul(l[i][k], l[j][k]), d[k])]), j))

\* the factor with column j filled in for the pivot diag; a zero pivot leaves
\* a zero column
factor_column(a, n, fac, j, diag) ==
  [l |-> Eval([i \in 0..(n - 1) |->
            [fac.l[i] EXCEPT ![j] = IF i < j THEN Zero
                                    ELSE IF i = j THEN One
                                    ELSE IF IsZero(diag) THEN Zero
                                    ELSE Div(eliminated_entry(a, fac.l, fac.d, i, j), diag)]]),
   d |-> [fac.d EXCEPT ![j] = diag]]

empty_factor(n) == [l |-> zeros_matrix(n), d |-> zeros_vector(n)]

\* nalgebra's Cholesky, column by column, in exact arithmetic: with L = l * sqrt(d),
\* column j is left with the pivot d[j] on the diagonal; the factorization gives up
\* (None) when a pivot is zero or has no square root.  Only the lower triangle of
\* a is read.
RECURSIVE cholesky_columns(_, _, _, _)
cholesky_pivot(a, n, fac, j, diag) ==
  IF Sign(diag) <= 0 THEN [some |-> FALSE]
  ELSE cholesky_columns(a, n, factor_column(a, n, fac, j, diag), j + 1)

cholesky_columns(a, n, fac, j) ==
  IF j = n THEN [some |-> TRUE, l |-> fac.l, d |-> fac.d]
  ELSE cholesky_pivot(a, n, fac, j, eliminated_entry(a, fac.l, fac.d, j, j))

cholesky(a) == cholesky_columns(a, Cardinality(DOMAIN a), empty_factor(Cardinality(DOMAIN a)), 0)

\* forward substitution l z = b, from row i on
RECURSIVE solve_lower(_, _, _, _)
solve_lower(l, b, z, i) ==
  IF i = Cardinality(DOMAIN b) THEN z
  ELSE solve_lower(l, b,
         [z EXCEPT ![i] = Sub(b[i], SumTo(Eval([k \in 0..(i - 1) |-> Mul(l[i][k], z[k])]), i))],
         i + 1)

\* backward substitution l^T x = y, from row i down
RECURSIVE solve_upper(_, _, _, _, _)
solve_upper(l, y, x, i, n) ==
  IF i < 0 THEN x
  ELSE solve_upper(l, y,
         [x EXCEPT ![i] = Sub(y[i], SumTo(Eval([k \in 0..(n - 2 - i) |->
                                             Mul(l[i + 1 + k][i], x[i + 1 + k])]), n - 1 - i))],
         i - 1, n)

\* division by the pivots; a component with a zero pivot is left at 0
scale_by_pivots(z, d) == Eval([i \in DOMAIN z |-> IF IsZero(d[i]) THEN Zero ELSE Div(z[i], d[i])])

back_substitute(l, y) == solve_upper(l, y, y, Cardinality(DOMAIN y) - 1, Cardinality(DOMAIN y))

\* Cholesky::solve
cholesky_solve(chol, b) ==
  back_substitute(chol.l, scale_by_pivots(solve_lower(chol.l, b, b, 0), chol.d))

some_solution(chol, b) ==
  IF ~chol.some THEN [some |-> FALSE]
  ELSE [some |-> TRUE, val |-> cholesky_solve(chol, b)]

dense_solver(a, b) == some_solution(cholesky(a), b)

\* CsrMatrix * DVector
csr_mul(a, p) ==
  Eval([i \in 0..(a.nrows - 1) |->
     SumSeq(Eval([k \in 1..Len(a.rows[i].cols) |-> Mul(a.rows[i].vals[k], p[a.rows[i].cols[k]])]))])

\* L D L^T of a symmetric positive semi-definite matrix m, column by column
RECURSIVE semidefinite_columns(_, _, _, _)
semidefinite_columns(m, n, fac, j) ==
  IF j = n THEN fac
  ELSE semidefinite_columns(m, n,
         factor_column(m, n, fac, j, eliminated_entry(m, fac.l, fac.d, j, j)), j + 1)

VecDot(u, v) == SumTo(Eval([i \in DOMAIN u |-> Mul(u[i], v[i])]), Cardinality(DOMAIN u))

\* a basis of the kernel of L D L^T: for every zero pivot i, in ascending order,
\* the solution of L^T v = e_i
kernel_basis(l, free) ==
  Eval([k \in 0..(Len(free) - 1) |->
          back_substitute(l, Eval([i \in DOMAIN l |-> IF i = free[k + 1] THEN One ELSE Zero]))])

\* x0 less its component t along the basis
RECURSIVE subtract_along(_, _, _, _)
subtract_along(x0, basis, t, k) ==
  IF k = 0 THEN x0
  ELSE subtract_along(Eval([i \in DOMAIN x0 |-> Sub(x0[i], Mul(t[k - 1], basis[k - 1][i]))]),
                      basis, t, k - 1)

\* x0 less its orthogonal projection on the span of the basis
project_out(x0, basis) ==
  subtract_along(x0, basis,
    dense_solver(Eval([k \in DOMAIN basis |-> Eval([m \in DOMAIN basis |-> VecDot(basis[k], basis[m])])]),
                 Eval([k \in DOMAIN basis |-> VecDot(basis[k], x0)])).val,
    Cardinality(DOMAIN basis))

\* the answer of the iteration on L D L^T = fac with L z = b: None when b is not in
\* the range of the matrix, else the solution that is orthogonal to its kernel
cg_answer(fac, z) ==
  IF \E i \in DOMAIN z : IsZero(fac.d[i]) /\ ~IsZero(z[i]) THEN [some |-> FALSE]
  ELSE [some |-> TRUE,
        val |-> project_out(back_substitute(fac.l, scale_by_pivots(z, fac.d)),
                            kernel_basis(fac.l, SortedSeq({i \in DOMAIN z : IsZero(fac.d[i])})))]

cg_range_solve(b, fac) == cg_answer(fac, solve_lower(fac.l, b, b, 0))

\* conjugate_gradient::solve(a, b, max_iter, tol), started from x = 0, in exact
\* arithmetic on a symmetric positive semi-definite a (the only matrices the
\* pipeline hands it).  The iterates stay in the range of a, the residuals are
\* mutually orthogonal, and p.Ap > 0 while the residual is not zero: the residual
\* is zero after at most n = nrows steps when b is in the range of a, and the
\* result is then the one solution of a x = b in the range of a (orthogonal to the
\* kernel); when b is not in the range of a no iterate has a zero residual and
\* the result is None.  tol = 1e-10 is below every non-zero number the model can
\* hold, so the residual test is r = 0.  A cap max_iter below n is not modelled
\* as converging.
conjugate_gradient_solve(a, b, max_iter) ==
  IF a.nrows > max_iter THEN [some |-> FALSE]
  ELSE cg_range_solve(b, semidefinite_columns(Densify(a), a.nrows, empty_factor(a.nrows), 0))

MaxIter == 1000

\* a solver that answers the right-hand side when the iteration fails
sparse_solver_or_rhs(a, b) ==
  IF conjugate_gradient_solve(a, b, MaxIter).some THEN conjugate_gradient_solve(a, b, MaxIter)
  ELSE [some |-> TRUE, val |-> b]

sparse_solver(a, b) == conjugate_gradient_solve(a, b, MaxIter)

----------------------------------------------------------------------------
(* lib.rs and solver.rs: the driver                                        *)

\* a match with its two arms exchanged
solve_poisson_2d_exchanged(type) ==
  IF type = "Dense" THEN "assemble_and_solve_sparse" ELSE "assemble_and_solve_dense"

\* solve_poisson_2d: the pipeline function the match on solver_type calls
solve_poisson_2d(type) ==
  IF type = "Dense" THEN "assemble_and_solve_dense" ELSE "assemble_and_solve_sparse"

\* the functions assemble_and_solve_dense calls, in program order
assemble_and_solve_dense == <<"assemble_system_dense", "apply_dirichlet_dense", "dense_solver">>

\* the functions assemble_and_solve_sparse calls, in program order
assemble_and_solve_sparse == <<"assemble_system_sparse", "apply_dirichlet_sparse", "sparse_solver">>

\* the body of the pipeline function named f
Body(f) == IF f = "assemble_and_solve_dense" THEN assemble_and_solve_dense
           ELSE assemble_and_solve_sparse

----------------------------------------------------------------------------
(* The inputs of a call                                                    *)

P(x, y) == Point2(R(x), R(y))
Half == <<1, 0, 2>>

\* one triangle
UnitTri == Mesh2d(<<P(0, 0), P(1, 0), P(0, 1)>>, <<Element(<<0, 1, 2>>)>>, "P1")
\* the unit square cut in two triangles
SquareTwoTri ==
  Mesh2d(<<P(0, 0), P(1, 0), P(1, 1), P(0, 1)>>,
         <<Element(<<0, 1, 2>>), Element(<<0, 2, 3>>)>>, "P1")
\* the unit square cut in four triangles around its centre (an interior node)
SquareFourTri ==
  Mesh2d(<<P(0, 0), P(1, 0), P(1, 1), P(0, 1), Point2(Half, Half)>>,
         <<Element(<<0, 1, 4>>), Element(<<1, 2, 4>>), Element(<<2, 3, 4>>),
           Element(<<3, 0, 4>>)>>, "P1")
\* a triangle and a vertex that belongs to no element
IsolatedTri ==
  Mesh2d(<<P(0, 0), P(1, 0), P(0, 1), P(1, 1)>>, <<Element(<<0, 1, 2>>)>>, "P1")
\* the second element has three collinear nodes
DegenerateTri ==
  Mesh2d(<<P(0, 0), P(1, 0), P(0, 1), P(2, 0)>>,
         <<Element(<<0, 1, 2>>), Element(<<0, 1, 3>>)>>, "P1")
\* the second element lists its nodes clockwise
ClockwiseTri ==
  Mesh2d(<<P(0, 0), P(1, 0), P(1, 1), P(0, 1)>>,
         <<Element(<<0, 1, 2>>), Element(<<0, 3, 2>>)>>, "P1")
\* the unit square as one quadrilateral (the mesh of the crate's tests)
UnitQuad ==
  Mesh2d(<<P(0, 0), P(1, 0), P(1, 1), P(0, 1)>>, <<Element(<<0, 1, 2, 3>>)>>, "Q1")
\* the unit square as 2 x 2 quadrilaterals (an interior node, index 4)
SquareFourQuad ==
  Mesh2d(<<P(0, 0), Point2(Half, Zero), P(1, 0),
           Point2(Zero, Half), Point2(Half, Half), Point2(One, Half),
           P(0, 1), Point2(Half, One), P(1, 1)>>,
         <<Element(<<0, 1, 4, 3>>), Element(<<1, 2, 5, 4>>),
           Element(<<3, 4, 7, 6>>), Element(<<4, 5, 8, 7>>)>>, "Q1")
\* a quadrilateral that is no parallelogram: its Jacobian varies over the element
Trapezoid ==
  Mesh2d(<<P(0, 0), P(2, 0), P(1, 1), P(0, 1)>>, <<Element(<<0, 1, 2, 3>>)>>, "Q1")
\* a quadrilateral collapsed onto a segment
DegenerateQuad ==
  Mesh2d(<<P(0, 0), P(1, 0), P(2, 0), P(3, 0)>>, <<Element(<<0, 1, 2, 3>>)>>, "Q1")
\* the unit square listed clockwise
ClockwiseQuad ==
  Mesh2d(<<P(0, 0), P(1, 0), P(1, 1), P(0, 1)>>, <<Element(<<0, 3, 2, 1>>)>>, "Q1")

Meshes == {UnitTri, SquareTwoTri, SquareFourTri, IsolatedTri, DegenerateTri, ClockwiseTri,
           UnitQuad, SquareFourQuad, Trapezoid, DegenerateQuad, ClockwiseQuad}

SourceFns == {"zero", "one", "x_plus_y"}
BoundaryFns == {"x", "one"}
SolverTypes == {"Dense", "Sparse"}

\* longest boundary_nodes sequence that is enumerated index by index
MaxBoundaryLen == 2

RECURSIVE SeqsUpTo(_, _)
SeqsUpTo(S, n) ==
  IF n = 0 THEN {<<>>}
  ELSE LET shorter == SeqsUpTo(S, n - 1)
       IN  shorter \cup {Append(s, x) : s \in {t \in shorter : Len(t) = n - 1}, x \in S}

\* the indices of the vertices on the sides of the mesh's bounding box, ascending
HullNodes(m) ==
  LET n == Len(m.vertices)
      xs == {m.vertices[i].x : i \in 1..n}
      ys == {m.vertices[i].y : i \in 1..n}
      extreme(S, v) == (\A w \in S : Sign(Sub(w, v)) >= 0) \/ (\A w \in S : Sign(Sub(w, v)) <= 0)
  IN  SortedSeq({i - 1 : i \in {k \in 1..n : extreme(xs, m.vertices[k].x)
                                            \/ extreme(ys, m.vertices[k].y)}})

\* largest index that the enumerated sequences list
MaxBoundaryIndex == 4

\* the indices the enumerated sequences are made of: the first indices of the
\* mesh and, on a small mesh, the index one past its last vertex
BoundaryIndexChoices(m) == {i \in 0..Len(m.vertices) : i <= MaxBoundaryIndex}

\* boundary_nodes of a call: every short sequence of these indices, repetitions
\* included, and the whole boundary of the mesh
BoundaryNodeChoices(m) ==
  SeqsUpTo(BoundaryIndexChoices(m), MaxBoundaryLen) \cup {HullNodes(m)}

----------------------------------------------------------------------------
(* The state of one call of solve_poisson_2d                               *)

VARIABLES
  mesh,            \* &Mesh2d
  boundary_nodes,  \* &[usize]
  boundary_fn,     \* the Dirichlet data g
  source_fn,       \* the source term f
  solver_type,     \* SolverType
  pc,              \* "entry", "assembled", "constrained", "returned" or "panicked"
  a,               \* the matrix: DMatrix (dense) or CsrMatrix (sparse)
  b,               \* the right-hand side
  solution,        \* the returned DVector, once pc = "returned"
  calls,           \* the functions called so far, in order
  call,            \* the entry point of the crate that is called, with its arguments
  result           \* what a call of a library function gave back

vars == <<mesh, boundary_nodes, boundary_fn, source_fn, solver_type, pc, a, b, solution, calls,
          call, result>>
inputs == <<mesh, boundary_nodes, boundary_fn, source_fn, solver_type, call>>
pipeline == <<mesh, boundary_nodes, boundary_fn, source_fn, solver_type, pc, a, b, solution, calls>>

Init ==
  /\ mesh \in Meshes
  /\ boundary_nodes \in BoundaryNodeChoices(mesh)
  /\ boundary_fn \in BoundaryFns
  /\ source_fn \in SourceFns
  /\ solver_type \in SolverTypes
  /\ pc = "entry"
  /\ a = <<>>
  /\ b = <<>>
  /\ solution = <<>>
  /\ calls = <<>>
  /\ call = [fn |-> "solve_poisson_2d"]
  /\ result = [done |-> FALSE]

\* the function the pipeline calls next
NextCall == Body(solve_poisson_2d(solver_type))[Len(calls) + 1]

AssembleDense ==
  /\ pc = "entry"
  /\ NextCall = "assemble_system_dense"
  /\ \E r \in {assemble_system_dense(mesh, source_fn)} :
       IF r.panic
       THEN pc' = "panicked" /\ UNCHANGED <<a, b>>
       ELSE pc' = "assembled" /\ a' = r.a /\ b' = r.b
  /\ calls' = Append(calls, "assemble_system_dense")
  /\ UNCHANGED <<inputs, solution, result>>

AssembleSparse ==
  /\ pc = "entry"
  /\ NextCall = "assemble_system_sparse"
  /\ \E r \in {assemble_system_sparse(mesh, source_fn)} :
       IF r.panic
       THEN pc' = "panicked" /\ UNCHANGED <<a, b>>
       ELSE pc' = "assembled" /\ a' = r.a /\ b' = r.b
  /\ calls' = Append(calls, "assemble_system_sparse")
  /\ UNCHANGED <<inputs, solution, result>>

ApplyDirichletDense ==
  /\ pc = "assembled"
  /\ NextCall = "apply_dirichlet_dense"
  /\ \E r \in {apply_dirichlet_dense(a, b, boundary_nodes, mesh, boundary_fn)} :
       /\ pc' = IF r.panic THEN "panicked" ELSE "constrained"
       /\ a' = r.a
       /\ b' = r.b
  /\ calls' = Append(calls, "apply_dirichlet_dense")
  /\ UNCHANGED <<inputs, solution, result>>

ApplyDirichletSparse ==
  /\ pc = "assembled"
  /\ NextCall = "apply_dirichlet_sparse"
  /\ \E r \in {apply_dirichlet_sparse(a, b, boundary_nodes, mesh, boundary_fn)} :
       /\ pc' = IF r.panic THEN "panicked" ELSE "constrained"
       /\ a' = r.a
       /\ b' = r.b
  /\ calls' = Append(calls, "apply_dirichlet_sparse")
  /\ UNCHANGED <<inputs, solution, result>>

\* a caller that returns the zero vector when the solver fails
SolveDense_unwrap_or_default ==
  /\ pc = "constrained"
  /\ NextCall = "dense_solver"
  /\ \E r \in {dense_solver(a, b)} :
       /\ pc' = "returned"
       /\ solution' = IF r.some THEN r.val ELSE zeros_vector(Len(mesh.vertices))
  /\ calls' = Append(calls, "dense_solver")
  /\ UNCHANGED <<inputs, a, b, result>>

\* dense_solver(&a, &b).expect("failed to solve")
SolveDense ==
  /\ pc = "constrained"
  /\ NextCall = "dense_solver"
  /\ \E r \in {dense_solver(a, b)} :
       IF r.some
       THEN pc' = "returned" /\ solution' = r.val
       ELSE pc' = "panicked" /\ UNCHANGED solution
  /\ calls' = Append(calls, "dense_solver")
  /\ UNCHANGED <<inputs, a, b, result>>

\* a caller that falls back on the right-hand side when the solver fails
SolveSparse_unwrap_or_rhs ==
  /\ pc = "constrained"
  /\ NextCall = "sparse_solver"
  /\ \E r \in {sparse_solver(a, b)} :
       IF r.some
       THEN pc' = "returned" /\ solution' = r.val
       ELSE pc' = "panicked" /\ solution' = b
  /\ calls' = Append(calls, "sparse_solver")
  /\ UNCHANGED <<inputs, a, b, result>>

\* sparse_solver(&a, &b).expect("failed to solve")
SolveSparse ==
  /\ pc = "constrained"
  /\ NextCall = "sparse_solver"
  /\ \E r \in {sparse_solver(a, b)} :
       IF r.some
       THEN pc' = "returned" /\ solution' = r.val
       ELSE pc' = "panicked" /\ UNCHANGED solution
  /\ calls' = Append(calls, "sparse_solver")
  /\ UNCHANGED <<inputs, a, b, result>>

Next ==
  \/ AssembleDense
  \/ AssembleSparse
  \/ ApplyDirichletDense
  \/ ApplyDirichletSparse
  \/ SolveDense
  \/ SolveSparse

Spec == Init /\ [][Next]_vars

----------------------------------------------------------------------------
(* The library functions of the crate, called on their own: one behaviour  *)
(* is one call of a public function of element.rs or quadrature.rs         *)

\* largest quadrature order that is requested
MaxOrder == 4
Orders == 0..MaxOrder

ReferenceElements == {"Tri3", "Quad4"}

\* the coordinates of the reference points: inside, on the boundary and outside
\* of both reference elements, the Gauss points +-1/sqrt 3 included
RefCoordinates ==
  {<<-1, 0, 1>>, Zero, Sixth, Third, Half, TwoThirds, One, <<2, 0, 1>>,
   Div(One, Sqrt3), Neg(Div(One, Sqrt3))}

\* the vertices_coordinates handed to jacobian: the unit element, a skew one, one
\* listed clockwise and a degenerate one
VertexChoices(e) ==
  IF e = "Tri3"
  THEN {<<P(0, 0), P(1, 0), P(0, 1)>>, <<P(0, 0), P(2, 0), P(1, 3)>>,
        <<P(0, 0), P(0, 1), P(1, 0)>>, <<P(0, 0), P(1, 0), P(2, 0)>>}
  ELSE {<<P(0, 0), P(1, 0), P(1, 1), P(0, 1)>>, <<P(0, 0), P(2, 0), P(1, 1), P(0, 1)>>,
        <<P(0, 0), P(0, 1), P(1, 1), P(1, 0)>>, <<P(0, 0), P(1, 0), P(2, 0), P(3, 0)>>}

LibraryCalls ==
  {[fn |-> "triangle", order |-> n] : n \in Orders}
    \cup {[fn |-> "quadrilateral", order |-> n] : n \in Orders}
    \cup {[fn |-> "shape_functions", element |-> e, point |-> Point2(xi, eta)] :
            e \in ReferenceElements, xi \in RefCoordinates, eta \in RefCoordinates}
    \cup {[fn |-> "shape_gradients", element |-> e, point |-> Point2(xi, eta)] :
            e \in ReferenceElements, xi \in RefCoordinates, eta \in RefCoordinates}
    \cup UNION {{[fn |-> "jacobian", element |-> e, vertices |-> vs, point |-> Point2(xi, eta)] :
                   vs \in VertexChoices(e), xi \in RefCoordinates, eta \in RefCoordinates} :
                 e \in ReferenceElements}

LibraryInit ==
  /\ call \in LibraryCalls
  /\ result = [done |-> FALSE]
  /\ mesh = UnitTri
  /\ boundary_nodes = <<>>
  /\ boundary_fn = "x"
  /\ source_fn = "zero"
  /\ solver_type = "Dense"
  /\ pc = "library"
  /\ a = <<>>
  /\ b = <<>>
  /\ solution = <<>>
  /\ calls = <<>>

\* QuadRule::triangle(order)
CallTriangle ==
  /\ call.fn = "triangle"
  /\ ~result.done
  /\ result' = [done |-> TRUE, val |-> triangle(call.order)]
  /\ UNCHANGED <<call, pipeline>>

\* QuadRule::quadrilateral(n)
CallQuadrilateral ==
  /\ call.fn = "quadrilateral"
  /\ ~result.done
  /\ result' = [done |-> TRUE, val |-> quadrilateral(call.order)]
  /\ UNCHANGED <<call, pipeline>>

\* ReferenceElement::shape_functions(&local_coordinates)
CallShapeFunctions ==
  /\ call.fn = "shape_functions"
  /\ ~result.done
  /\ result' = [done |-> TRUE, val |-> shape_functions(call.element, call.point)]
  /\ UNCHANGED <<call, pipeline>>

\* ReferenceElement::shape_gradients(&local_coordinates)
CallShapeGradients ==
  /\ call.fn = "shape_gradients"
  /\ ~result.done
  /\ result' = [done |-> TRUE, val |-> shape_gradients(call.element, call.point)]
  /\ UNCHANGED <<call, pipeline>>

\* ReferenceElement::jacobian(&vertices_coordinates, &local_coordinates)
CallJacobian ==
  /\ call.fn = "jacobian"
  /\ ~result.done
  /\ result' = [done |-> TRUE, val |-> jacobian(call.element, call.vertices, call.point)]
  /\ UNCHANGED <<call, pipeline>>

LibraryNext ==
  \/ CallTriangle
  \/ CallQuadrilateral
  \/ CallShapeFunctions
  \/ CallShapeGradients
  \/ CallJacobian

LibrarySpec == LibraryInit /\ [][LibraryNext]_vars

----------------------------------------------------------------------------
(* Properties                                                              *)

NumVertices == Len(mesh.vertices)
NodeIndices == 0..(NumVertices - 1)

\* a matrix of backend type read entry by entry: an entry that is not stored is 0
DenseOf(type, m) == IF type = "Dense" THEN m ELSE Densify(m)

\* the matrix of the state read entry by entry
DenseA == DenseOf(solver_type, a)

OtherBackend == IF solver_type = "Dense" THEN "Sparse" ELSE "Dense"

\* the three steps of the pipeline on backend type
Assemble(type, m, f) ==
  IF type = "Dense" THEN assemble_system_dense(m, f) ELSE assemble_system_sparse(m, f)

ApplyDirichlet(type, A, rhs, nodes, m, g) ==
  IF type = "Dense"
  THEN apply_dirichlet_dense(A, rhs, nodes, m, g)
  ELSE apply_dirichlet_sparse(A, rhs, nodes, m, g)

Solver(type, A, rhs) == IF type = "Dense" THEN dense_solver(A, rhs) ELSE sparse_solver(A, rhs)

\* the system backend type holds after its boundary-condition step
Constrained(type, m, nodes, g, f) ==
  LET s == Assemble(type, m, f)
  IN  IF s.panic THEN [panic |-> TRUE]
      ELSE ApplyDirichlet(type, s.a, s.b, nodes, m, g)

\* what a whole call on backend type gives back
Pipeline(type, m, nodes, g, f) ==
  LET c == Constrained(type, m, nodes, g, f)
  IN  IF c.panic THEN [returned |-> FALSE]
      ELSE LET r == Solver(type, c.a, c.b)
           IN  IF r.some THEN [returned |-> TRUE, solution |-> r.val]
               ELSE [returned |-> FALSE]

BoundaryIndexSet == {boundary_nodes[k] : k \in 1..Len(boundary_nodes)}

\* g at vertex j
BoundaryValue(j) == Apply(boundary_fn, mesh.vertices[j + 1].x, mesh.vertices[j + 1].y)

\* vertex j belongs to no element
InNoElement(j) ==
  \A e \in 1..Len(mesh.elements) :
    \A k \in 1..Len(mesh.elements[e].indices) : mesh.elements[e].indices[k] # j

Symmetric(m) == \A i, k \in DOMAIN m : m[i][k] = m[k][i]

\* the determinants of the Jacobian at the quadrature points of the elements of m
JacobianDeterminants(m) ==
  {determinant(jacobian(ref_element_of(m.element_type),
                        element_nodes(m.vertices, m.elements[e].indices),
                        quad_rule_of(m.element_type).points[q])) :
     e \in 1..Len(m.elements), q \in 1..Len(quad_rule_of(m.element_type).points)}

HasSingularJacobian(m) == \E d \in JacobianDeterminants(m) : Sign(d) = 0
HasInvertedJacobian(m) == \E d \in JacobianDeterminants(m) : Sign(d) < 0

\* C1: once apply_dirichlet_dense or apply_dirichlet_sparse has returned, for every
\* index j listed in boundary_nodes, all of row j and of column j of A is 0 except
\* A[j][j] = 1, and b[j] = g(x_j, y_j)
C1_DirichletRowsAndColumns ==
  pc = "constrained" =>
    LET A == DenseA
    IN  \A j \in BoundaryIndexSet :
          /\ \A k \in NodeIndices \ {j} : A[j][k] = Zero /\ A[k][j] = Zero
          /\ A[j][j] = One
          /\ b[j] = BoundaryValue(j)

\* C2: assemble_system_dense and assemble_system_sparse return the same system: the
\* sparse matrix read entry by entry (an absent entry is 0, pushed duplicates are
\* summed) equals the dense matrix, and the two load vectors are equal; one
\* panics exactly when the other does
C2_AssembliesAgree ==
  Len(calls) = 1 =>
    LET other == Assemble(OtherBackend, mesh, source_fn)
    IN  IF pc = "panicked" THEN other.panic
        ELSE /\ ~other.panic
             /\ DenseOf(OtherBackend, other.a) = DenseA
             /\ other.b = b

\* an assembled system where two elements add to the same entry and the load is
\* not zero
C2_Witness ==
  /\ pc = "assembled"
  /\ Len(mesh.elements) > 1
  /\ \E i \in NodeIndices : b[i] # Zero
  /\ \E i, j \in NodeIndices : i # j /\ DenseA[i][j] # Zero

\* C3: apply_dirichlet_sparse and apply_dirichlet_dense, each started from the
\* system its backend assembled for the same mesh and source (the same matrix, by
\* C2), with the same boundary_nodes sequence of valid indices and the same g,
\* leave the same matrix (the sparse one read entry by entry) and the same b
C3_DirichletBackendsAgree ==
  pc = "constrained" =>
    LET other == Constrained(OtherBackend, mesh, boundary_nodes, boundary_fn, source_fn)
    IN  /\ ~other.panic
        /\ DenseOf(OtherBackend, other.a) = DenseA
        /\ other.b = b

\* C4: for the same mesh, source, boundary nodes and boundary function, a call on
\* the dense backend and a call on the sparse backend that both return, return
\* the same solution
C4_PipelinesAgree ==
  pc = "returned" =>
    LET other == Pipeline(OtherBackend, mesh, boundary_nodes, boundary_fn, source_fn)
    IN  other.returned => other.solution = solution

\* the meshes of the unit square that have an interior node
UnitSquareMeshes == {SquareFourTri, SquareFourQuad}

\* C5: on a mesh of the unit square with an interior node, with f = 0, g = x and
\* boundary_nodes all the nodes of the square's boundary, the call returns
\* u[i] = x_i at every node, on either backend
C5_LinearSolutionReproduced ==
  ( /\ mesh \in UnitSquareMeshes
    /\ source_fn = "zero"
    /\ boundary_fn = "x"
    /\ boundary_nodes = HullNodes(mesh)
    /\ Len(calls) = 3 )
  => /\ pc = "returned"
     /\ \A i \in NodeIndices : solution[i] = mesh.vertices[i + 1].x

\* C6: a boundary-condition step that starts from a symmetric matrix leaves a
\* symmetric matrix, on either backend
C6_DirichletPreservesSymmetry ==
  [][(pc = "assembled" /\ pc' = "constrained" /\ Symmetric(DenseA)) => Symmetric(DenseA')]_vars

\* a boundary-condition step has zeroed a row and a column of a symmetric matrix
\* that keeps entries off its diagonal
C6_Witness ==
  /\ pc = "constrained"
  /\ BoundaryIndexSet # {}
  /\ Symmetric(DenseA)
  /\ \E i, k \in NodeIndices : i # k /\ DenseA[i][k] # Zero

\* the functions a call on the backend of solver_type runs, in order
ExpectedCalls ==
  IF solver_type = "Dense"
  THEN <<"assemble_system_dense", "apply_dirichlet_dense", "dense_solver">>
  ELSE <<"assemble_system_sparse", "apply_dirichlet_sparse", "sparse_solver">>

\* C7: a call of solve_poisson_2d runs assemble, then the boundary conditions, then
\* the solver, each once and in this order, all three of the backend solver_type
\* selects; a call that returns has run exactly these three
C7_PipelineOrder ==
  /\ Len(calls) <= 3
  /\ calls = SubSeq(ExpectedCalls, 1, Len(calls))
  /\ pc = "entry" => calls = <<>>
  /\ pc = "assembled" => Len(calls) = 1
  /\ pc = "constrained" => Len(calls) = 2
  /\ pc = "returned" => calls = ExpectedCalls

\* a sparse call has returned
C7_Witness == pc = "returned" /\ solver_type = "Sparse" /\ Len(calls) = 3

\* C8: when the Jacobian of some element has determinant 0 at a quadrature point,
\* assembly panics on either backend: no (A, b) exists and neither the
\* boundary-condition step nor the solver runs
C8_SingularJacobianAborts ==
  HasSingularJacobian(mesh) =>
    /\ pc \in {"entry", "panicked"}
    /\ Len(calls) <= 1
    /\ a = <<>> /\ b = <<>>

\* assembly has panicked on a mesh with a degenerate element
C8_Witness == HasSingularJacobian(mesh) /\ pc = "panicked" /\ Len(calls) = 1

\* C9 (as stated): when the Jacobian of some element has a negative determinant at
\* a quadrature point, assembly aborts on either backend and returns no (A, b)
C9_InvertedElementAborts ==
  HasInvertedJacobian(mesh) => pc \in {"entry", "panicked"} /\ Len(calls) <= 1

\* C9 (amended): when no Jacobian determinant is 0 at a quadrature point, assembly
\* returns (A, b) on either backend, inverted elements included: they are weighted
\* by |det J|, so the diagonal of A is not negative
C9_InvertedElementAssembled ==
  (Len(calls) = 1 /\ HasInvertedJacobian(mesh) /\ ~HasSingularJacobian(mesh)) =>
    /\ pc = "assembled"
    /\ \A i \in NodeIndices : Sign(DenseA[i][i]) >= 0

\* a mesh with a clockwise element has been assembled
C9_Witness == pc = "assembled" /\ HasInvertedJacobian(mesh) /\ DenseA[0][0] # Zero

\* C10: a solver gives either a solution with one value per vertex or a failure
\* that carries no vector, and a call whose solver fails hands no vector to its
\* caller
C10_NoSolutionOnFailure ==
  /\ pc # "returned" => solution = <<>>
  /\ pc = "returned" => DOMAIN solution = NodeIndices
  /\ pc = "constrained" =>
       LET r == Solver(solver_type, a, b)
       IN  IF r.some THEN DOMAIN r.val = NodeIndices ELSE DOMAIN r = {"some"}

\* the solver of a call has failed
C10_Witness == pc = "panicked" /\ Len(calls) = 3 /\ solution = <<>>

\* the order of a rule is one the code supports
Supported(order) == order = 1 \/ order = 2

\* a call of QuadRule::triangle or QuadRule::quadrilateral is over
RuleCallDone == result.done /\ call.fn \in {"triangle", "quadrilateral"}

\* C13: QuadRule::triangle(order) and QuadRule::quadrilateral(order) panic and give
\* no rule for every order other than 1 and 2, and give a rule for 1 and 2
C13_UnsupportedOrderPanics ==
  RuleCallDone =>
    /\ result.val.panic <=> ~Supported(call.order)
    /\ result.val.panic => result.val.points = <<>> /\ result.val.weights = <<>>

\* order 3 has been asked of the triangle rules and has panicked
C13_Witness ==
  RuleCallDone /\ call.fn = "triangle" /\ call.order = 3 /\ result.val.panic

\* C14: at every reference point the values of shape_functions are one per node
\* (num_nodes of them) and sum to 1, for both element types
C14_PartitionOfUnity ==
  (result.done /\ call.fn = "shape_functions") =>
    /\ Len(result.val) = num_nodes(call.element)
    /\ num_nodes(call.element) = (IF call.element = "Tri3" THEN 3 ELSE 4)
    /\ SumSeq(result.val) = One

\* the triangle functions evaluated at a point where none of them is zero
C14_Witness ==
  /\ result.done /\ call.fn = "shape_functions" /\ call.element = "Tri3"
  /\ call.point = Point2(Sixth, TwoThirds)
  /\ \A i \in 1..3 : result.val[i] # Zero

\* the number of points of the supported rules
RuleSize(fn, order) == IF order = 1 THEN 1 ELSE IF fn = "triangle" THEN 3 ELSE 4

\* C15: a supported rule has as many weights as points: 1 and 1 at order 1, 3 and 3
\* for the triangle at order 2, 4 and 4 for the quadrilateral at order 2
C15_RuleSizes ==
  (RuleCallDone /\ Supported(call.order)) =>
    /\ Len(result.val.points) = RuleSize(call.fn, call.order)
    /\ Len(result.val.weights) = RuleSize(call.fn, call.order)

\* the 2 x 2 Gauss rule has been built
C15_Witness ==
  /\ RuleCallDone /\ call.fn = "quadrilateral" /\ call.order = 2
  /\ Len(result.val.points) = 4

\* u <= v
Leq(u, v) == Sign(Sub(v, u)) >= 0

\* point p lies in the reference element the rules of fn integrate over
InReferenceElement(fn, p) ==
  IF fn = "triangle"
  THEN Leq(Zero, p.x) /\ Leq(Zero, p.y) /\ Leq(Add(p.x, p.y), One)
  ELSE Leq(Abs(p.x), One) /\ Leq(Abs(p.y), One)

\* the area of that reference element
ReferenceArea(fn) == IF fn = "triangle" THEN Half ELSE <<4, 0, 1>>

\* C16: the weights of a supported rule sum to the area of the reference element
\* (1/2 for the triangle, 4 for the quadrilateral), the order-2 weights are 1/6
\* each and 1 each, and every point of the rule lies in the reference element
C16_WeightsAndPoints ==
  (RuleCallDone /\ Supported(call.order)) =>
    /\ SumSeq(result.val.weights) = ReferenceArea(call.fn)
    /\ call.order = 2 =>
          \A k \in 1..Len(result.val.weights) :
            result.val.weights[k] = (IF call.fn = "triangle" THEN Sixth ELSE One)
    /\ \A k \in 1..Len(result.val.points) : InReferenceElement(call.fn, result.val.points[k])

\* the 2 x 2 Gauss rule has been built, with a point at (-1/sqrt 3, 1/sqrt 3)
C16_Witness ==
  /\ RuleCallDone /\ call.fn = "quadrilateral" /\ call.order = 2
  /\ \E k \in 1..Len(result.val.points) :
       result.val.points[k] = Point2(Neg(Div(One, Sqrt3)), Div(One, Sqrt3))

\* C11 (as stated): a solve failure is reported to the caller as a failure that is
\* not the fatal abort and that the caller can recover from, by the solvers and
\* by the pipeline entry points alike
C11_SolveFailureRecoverable ==
  /\ pc = "constrained" => "panic" \notin DOMAIN Solver(solver_type, a, b)
  /\ (Len(calls) = 3 /\ ~Solver(solver_type, a, b).some) => pc # "panicked"

\* C11 (amended): dense_solver and sparse_solver report a solve failure as the
\* value None, which is no abort; the pipeline entry points turn that None into
\* the abort (expect), and return exactly when the solver gave a solution
C11_SolveFailureAbortsPipeline ==
  /\ pc = "constrained" => "panic" \notin DOMAIN Solver(solver_type, a, b)
  /\ Len(calls) = 3 =>
       LET r == Solver(solver_type, a, b)
       IN  IF r.some THEN pc = "returned" /\ solution = r.val
           ELSE pc = "panicked" /\ solution = <<>>

\* Cholesky has failed in a dense call, which has aborted
C11_Witness ==
  /\ solver_type = "Dense" /\ Len(calls) = 3 /\ pc = "panicked"
  /\ ~dense_solver(a, b).some

\* boundary_nodes lists an index that is not below the vertex count
HasOutOfRangeIndex == \E k \in 1..Len(boundary_nodes) : boundary_nodes[k] >= NumVertices

\* C12: when boundary_nodes lists an index that is not below the vertex count,
\* apply_dirichlet_dense and apply_dirichlet_sparse abort, wherever the index sits
\* in the sequence, and A and b are then as assembly left them
C12_OutOfRangeIndexAborts ==
  (Len(calls) >= 2 /\ HasOutOfRangeIndex) =>
    /\ pc = "panicked"
    /\ Len(calls) = 2
    /\ LET s == Assemble(solver_type, mesh, source_fn)
       IN  a = s.a /\ b = s.b

\* the call has aborted on a bad index that follows a valid one, with a load
\* vector that is not zero
C12_Witness ==
  /\ pc = "panicked" /\ Len(calls) = 2
  /\ Len(boundary_nodes) = 2
  /\ boundary_nodes[1] < NumVertices /\ boundary_nodes[2] >= NumVertices
  /\ \E i \in NodeIndices : b[i] # Zero

\* C17: assembly returns a matrix with one row and one column per vertex and a
\* vector with one entry per vertex, whatever the elements; the row, the column
\* and the entry of b of a vertex that belongs to no element are 0
C17_SystemSize ==
  pc = "assembled" =>
    /\ DOMAIN b = NodeIndices
    /\ solver_type = "Dense" => DOMAIN a = NodeIndices /\ \A i \in DOMAIN a : DOMAIN a[i] = NodeIndices
    /\ solver_type = "Sparse" =>
         /\ a.nrows = NumVertices /\ a.ncols = NumVertices /\ DOMAIN a.rows = NodeIndices
         /\ \A i \in NodeIndices :
              /\ Len(a.rows[i].cols) = Len(a.rows[i].vals)
              /\ \A k \in 1..Len(a.rows[i].cols) : a.rows[i].cols[k] \in NodeIndices
    /\ LET A == DenseA
       IN  \A j \in NodeIndices :
             InNoElement(j) => b[j] = Zero /\ \A k \in NodeIndices : A[j][k] = Zero /\ A[k][j] = Zero

\* a mesh with a vertex that belongs to no element has been assembled
C17_Witness ==
  /\ pc = "assembled"
  /\ \E j \in NodeIndices : InNoElement(j)
  /\ \E i \in NodeIndices : DenseA[i][i] # Zero

\* the product of the matrix m and the vector x
MatTimes(m, x) ==
  [i \in DOMAIN m |-> SumTo([k \in DOMAIN x |-> Mul(m[i][k], x[k])], Cardinality(DOMAIN x))]

FactorProduct(fac, n, i, j) ==
  SumTo([k \in 0..(n - 1) |-> Mul(Mul(fac.l[i][k], fac.l[j][k]), fac.d[k])], n)

\* m = L D L^T for the factor fac of m
FactorOf(m, n, fac) == \A i, j \in 0..(n - 1) : FactorProduct(fac, n, i, j) = m[i][j]

\* x^T m x >= 0 for every x: the symmetric matrix m is L D L^T with D >= 0
PositiveSemiDefinite(m) ==
  LET n == Cardinality(DOMAIN m)
      fac == Eval(semidefinite_columns(m, n, empty_factor(n), 0))
  IN  /\ \A k \in 0..(n - 1) : Sign(fac.d[k]) >= 0
      /\ FactorOf(m, n, fac)

\* x^T m x > 0 for every non-zero x: the symmetric matrix m is L D L^T with D > 0
PositiveDefinite(m) ==
  LET n == Cardinality(DOMAIN m)
      fac == Eval(semidefinite_columns(m, n, empty_factor(n), 0))
  IN  /\ \A k \in 0..(n - 1) : Sign(fac.d[k]) > 0
      /\ FactorOf(m, n, fac)

\* C19: the matrix that assembly returns is symmetric and positive semi-definite,
\* for every mesh whose elements have an invertible Jacobian, on either backend
C19_AssembledSymmetricPSD ==
  pc = "assembled" =>
    LET A == DenseA
    IN  Symmetric(A) /\ PositiveSemiDefinite(A)

\* a mesh of several quadrilaterals has been assembled into a matrix that is not
\* diagonal
C19_Witness ==
  /\ pc = "assembled" /\ mesh = SquareFourQuad
  /\ DenseA[0][4] # Zero

\* the vertices that a chain of elements links to a vertex of S
RECURSIVE LinkedTo(_, _)
LinkedTo(m, S) ==
  LET T == S \cup {m.elements[e].indices[k] :
                     e \in {f \in 1..Len(m.elements) :
                              \E l \in 1..Len(m.elements[f].indices) : m.elements[f].indices[l] \in S},
                     k \in 1..num_nodes(ref_element_of(m.element_type))}
  IN  IF T = S THEN S ELSE LinkedTo(m, T)

\* every vertex of m is linked to vertex 0 by a chain of elements
Connected(m) == LinkedTo(m, {0}) = 0..(Len(m.vertices) - 1)

\* C20: on a connected mesh with a boundary node listed, the matrix that
\* apply_dirichlet_dense leaves is symmetric positive definite, its Cholesky
\* factorization succeeds and the dense call returns a solution
C20_ConstrainedPositiveDefinite ==
  (solver_type = "Dense" /\ Connected(mesh) /\ BoundaryIndexSet # {}) =>
    /\ pc = "constrained" =>
         /\ Symmetric(a) /\ PositiveDefinite(a)
         /\ cholesky(a).some
         /\ dense_solver(a, b).some
    /\ Len(calls) = 3 => pc = "returned" /\ DOMAIN solution = NodeIndices

\* a dense call has returned on a mesh with an interior node and one boundary node
C20_Witness ==
  /\ solver_type = "Dense" /\ pc = "returned" /\ mesh = SquareFourTri
  /\ Cardinality(BoundaryIndexSet) = 1

\* the points one unit before and after p along xi and along eta
XiBefore(p) == Point2(Sub(p.x, One), p.y)
XiAfter(p) == Point2(Add(p.x, One), p.y)
EtaBefore(p) == Point2(p.x, Sub(p.y, One))
EtaAfter(p) == Point2(p.x, Add(p.y, One))

\* (after - before)/2: the derivative at the midpoint of a function that is a
\* polynomial of degree at most 2 along the line from before to after
CentralDifference(before, after) == Mul(Half, Sub(after, before))

\* the partial derivatives at p of the i-th function of shape_functions, which is
\* of degree 1 in xi and in eta
ShapeDerivative(e, p, i) ==
  Vector2(CentralDifference(shape_functions(e, XiBefore(p))[i], shape_functions(e, XiAfter(p))[i]),
          CentralDifference(shape_functions(e, EtaBefore(p))[i], shape_functions(e, EtaAfter(p))[i]))

\* C21: shape_gradients(p) gives, for every node i, the partial derivatives along
\* xi and eta of the i-th function of shape_functions at p, for both element types
C21_GradientsAreDerivatives ==
  (result.done /\ call.fn = "shape_gradients") =>
    /\ Len(result.val) = num_nodes(call.element)
    /\ \A i \in 1..num_nodes(call.element) :
         result.val[i] = ShapeDerivative(call.element, call.point, i)

\* the map (xi, eta) -> sum_i N_i(xi, eta) * vertex_i, as the assembler computes it
ReferenceMap(e, vs, p) == physical_point(Point2(Zero, Zero), shape_functions(e, p), vs, 1)

\* the derivative of that map at p: dx/dxi, dx/deta, dy/dxi, dy/deta
MapDerivative(e, vs, p) ==
  Matrix2(CentralDifference(ReferenceMap(e, vs, XiBefore(p)).x, ReferenceMap(e, vs, XiAfter(p)).x),
          CentralDifference(ReferenceMap(e, vs, EtaBefore(p)).x, ReferenceMap(e, vs, EtaAfter(p)).x),
          CentralDifference(ReferenceMap(e, vs, XiBefore(p)).y, ReferenceMap(e, vs, XiAfter(p)).y),
          CentralDifference(ReferenceMap(e, vs, EtaBefore(p)).y, ReferenceMap(e, vs, EtaAfter(p)).y))

\* C22: jacobian(vertices, p) is the derivative at p of the map
\* (xi, eta) -> sum_i N_i(xi, eta) * vertex_i, entry (0,0) = dx/dxi, (0,1) = dx/deta,
\* (1,0) = dy/dxi, (1,1) = dy/deta; for the triangle its columns are v1 - v0 and
\* v2 - v0
C22_JacobianIsMapDerivative ==
  (result.done /\ call.fn = "jacobian") =>
    /\ result.val = MapDerivative(call.element, call.vertices, call.point)
    /\ call.element = "Tri3" =>
         /\ result.val.m11 = Sub(call.vertices[2].x, call.vertices[1].x)
         /\ result.val.m21 = Sub(call.vertices[2].y, call.vertices[1].y)
         /\ result.val.m12 = Sub(call.vertices[3].x, call.vertices[1].x)
         /\ result.val.m22 = Sub(call.vertices[3].y, call.vertices[1].y)

\* the Jacobian of the trapezoid, which varies with the point, taken away from
\* the centre
C22_Witness ==
  /\ result.done /\ call.fn = "jacobian" /\ call.element = "Quad4"
  /\ call.vertices = <<P(0, 0), P(2, 0), P(1, 1), P(0, 1)>>
  /\ call.point = Point2(Third, Half)
  /\ result.val.m11 # result.val.m22

\* no index is listed twice in boundary_nodes
DistinctNodes == \A k, l \in 1..Len(boundary_nodes) : k # l => boundary_nodes[k] # boundary_nodes[l]

\* a boundary-condition step that returns
DirichletStep == pc = "assembled" /\ pc' = "constrained"

\* sum over the listed nodes j of A0[i][j] * g_j
ColumnContributions(A0, i) ==
  SumSeq([k \in 1..Len(boundary_nodes) |->
            Mul(A0[i][boundary_nodes[k]], BoundaryValue(boundary_nodes[k]))])

\* C23: with distinct boundary nodes, a boundary-condition step leaves at every
\* index i that is not listed b[i] = b0[i] - sum over the listed j of A0[i][j] * g_j,
\* A0 and b0 the matrix and the vector at entry: each column is read before it is
\* zeroed, on either backend
C23_RhsUsesEntryColumns ==
  [][(DirichletStep /\ DistinctNodes) =>
       LET A0 == DenseA
       IN  \A i \in NodeIndices \ BoundaryIndexSet : b'[i] = Sub(b[i], ColumnContributions(A0, i))]_vars

\* two distinct nodes have been constrained and have left a load at a free node of
\* a system assembled with a zero source
C23_Witness ==
  /\ pc = "constrained" /\ DistinctNodes /\ Len(boundary_nodes) = 2
  /\ source_fn = "zero"
  /\ \E i \in NodeIndices \ BoundaryIndexSet : b[i] # Zero

\* longest sequence of which every permutation is tried
MaxPermutedLen == 4

\* the sequence s in the order f
Permuted(s, f) == [k \in 1..Len(s) |-> s[f[k]]]

\* the orders of 1..n: all of them up to MaxPermutedLen, and beyond that the
\* reversal and the exchanges of two neighbours
Orders_of(n) ==
  IF n <= MaxPermutedLen
  THEN {f \in [1..n -> 1..n] : \A k, l \in 1..n : k # l => f[k] # f[l]}
  ELSE {[k \in 1..n |-> n + 1 - k]}
         \cup {[k \in 1..n |-> IF k = m THEN m + 1 ELSE IF k = m + 1 THEN m ELSE k] : m \in 1..(n - 1)}

Rearrangements(s) == {Permuted(s, f) : f \in Orders_of(Len(s))}

\* C24: with pairwise distinct valid indices, a boundary-condition step leaves the
\* same A and the same b for every other order of boundary_nodes, on either backend
C24_EliminationCommutes ==
  [][(DirichletStep /\ DistinctNodes) =>
       \A s \in Rearrangements(boundary_nodes) :
         LET r == ApplyDirichlet(solver_type, a, b, s, mesh, boundary_fn)
         IN  ~r.panic /\ r.a = a' /\ r.b = b']_vars

\* four distinct nodes with different boundary values have been constrained
C24_Witness ==
  /\ pc = "constrained" /\ DistinctNodes /\ Len(boundary_nodes) = 4
  /\ boundary_fn = "x"
  /\ \E i, k \in BoundaryIndexSet : b[i] # b[k]

\* s with the later occurrences of every index removed
RECURSIVE WithoutRepetitions(_)
WithoutRepetitions(s) ==
  IF s = <<>> THEN <<>>
  ELSE LET r == WithoutRepetitions(SubSeq(s, 1, Len(s) - 1))
       IN  IF \E k \in 1..Len(r) : r[k] = s[Len(s)] THEN r ELSE Append(r, s[Len(s)])

\* C26: a boundary-condition step on a boundary_nodes sequence that repeats a valid
\* index leaves the same A and the same b as on the sequence without the
\* repetitions, on either backend
C26_RepeatedIndexHarmless ==
  (pc = "constrained" /\ ~DistinctNodes) =>
    LET s == Assemble(solver_type, mesh, source_fn)
        r == ApplyDirichlet(solver_type, s.a, s.b, WithoutRepetitions(boundary_nodes), mesh, boundary_fn)
    IN  ~r.panic /\ r.a = a /\ r.b = b

\* C27: a call that returns a solution u returns u[j] = boundary_fn(x_j, y_j) at
\* every j listed in boundary_nodes, on either backend
C27_DirichletDataMet ==
  pc = "returned" => \A j \in BoundaryIndexSet : solution[j] = BoundaryValue(j)

\* a sparse call has returned with two boundary values that differ and a free node
C27_Witness ==
  /\ pc = "returned" /\ solver_type = "Sparse"
  /\ \E j, k \in BoundaryIndexSet : solution[j] # solution[k]
  /\ NodeIndices \ BoundaryIndexSet # {}

\* C29: a boundary-condition step keeps every entry A[i][k] with i and k both not
\* listed, keeps the mesh, keeps the stored pattern of the sparse matrix, and
\* with an empty boundary_nodes keeps A and b
C29_DirichletFrame ==
  [][DirichletStep =>
       /\ mesh' = mesh
       /\ LET A0 == DenseA
              A1 == DenseOf(solver_type, a')
          IN  \A i, k \in NodeIndices \ BoundaryIndexSet : A1[i][k] = A0[i][k]
       /\ solver_type = "Sparse" =>
            /\ a'.nrows = a.nrows /\ a'.ncols = a.ncols
            /\ \A i \in NodeIndices : a'.rows[i].cols = a.rows[i].cols
       /\ boundary_nodes = <<>> => a' = a /\ b' = b]_vars

\* a node has been constrained in a sparse matrix that keeps entries off the
\* diagonal between free nodes
C29_Witness ==
  /\ pc = "constrained" /\ solver_type = "Sparse" /\ Len(boundary_nodes) = 1
  /\ \E i, k \in NodeIndices \ BoundaryIndexSet : i # k /\ DenseA[i][k] # Zero

\* ke and fe of every element of the mesh, as backend type computes them
LocalSystems(type) ==
  Eval([e \in 1..Len(mesh.elements) |->
     IF type = "Dense"
     THEN element_dense(mesh, mesh.elements[e], source_fn)
     ELSE element_sparse(mesh, mesh.elements[e], source_fn)])

\* the local positions of element e that hold global index p
LocalPositions(e, p) ==
  {i \in 1..Len(mesh.elements[e].indices) : mesh.elements[e].indices[i] = p}

\* the sum of the values v[i] over the members i of the finite set S
RECURSIVE SumOver(_, _)
SumOver(S, v) ==
  IF S = {} THEN Zero
  ELSE LET i == CHOOSE x \in S : TRUE IN Add(v[i], SumOver(S \ {i}, v))

\* the sum over the elements and their local pairs (i, j) at (p, q) of ke[i][j]
ScatteredStiffness(loc, p, q) ==
  SumSeq([e \in 1..Len(mesh.elements) |->
     LET ke == loc[e].ke
     IN  SumOver(LocalPositions(e, p) \X LocalPositions(e, q),
                 [ij \in LocalPositions(e, p) \X LocalPositions(e, q) |-> ke[ij[1]][ij[2]]])])

\* the sum over the elements and their local positions i at p of fe[i]
ScatteredLoad(loc, p) ==
  SumSeq([e \in 1..Len(mesh.elements) |-> SumOver(LocalPositions(e, p), loc[e].fe)])

\* C25: the assembled A[p][q] is the sum over all elements and their local pairs
\* (i, j) with global indices (p, q) of Ke[i][j], b[p] the like sum of fe[i], and
\* the assembler returns the same A and b for every other order of the element
\* list, on either backend; the assembler reads the mesh and the source only, and
\* the orders are tried once per mesh, source and backend, in the calls that
\* list no boundary node
C25_AssemblyIsAdditiveScatter ==
  pc = "assembled" =>
    /\ LET A == DenseA
           loc == LocalSystems(solver_type)
       IN  /\ \A p, q \in NodeIndices : A[p][q] = ScatteredStiffness(loc, p, q)
           /\ \A p \in NodeIndices : b[p] = ScatteredLoad(loc, p)
    /\ boundary_nodes = <<>> =>
         \A els \in Rearrangements(mesh.elements) :
           LET r == Assemble(solver_type, [mesh EXCEPT !.elements = els], source_fn)
           IN  ~r.panic /\ r.a = a /\ r.b = b

\* a mesh of four elements around a shared vertex has been assembled with a
\* source that is not constant
C25_Witness ==
  /\ pc = "assembled" /\ Len(mesh.elements) = 4 /\ source_fn = "x_plus_y"
  /\ boundary_nodes = <<>>
  /\ \E p \in NodeIndices :
       /\ Cardinality({e \in 1..Len(mesh.elements) : LocalPositions(e, p) # {}}) = 4
       /\ b[p] # Zero

\* the entries of the vector v over 0..n-1, as a sequence
AsSeq(v, n) == [k \in 1..n |-> v[k - 1]]

\* C28: before the boundary conditions every row and every column of the
\* assembled A sums to zero, for either element type
C28_AssembledRowsSumToZero ==
  pc = "assembled" =>
    LET A == DenseA
    IN  \A i \in NodeIndices :
          /\ SumSeq(AsSeq(A[i], NumVertices)) = Zero
          /\ SumSeq([k \in 1..NumVertices |-> A[k - 1][i]]) = Zero

\* the quadrature-integrated |det J| of element e of mesh m
ElementArea(m, e) ==
  SumSeq([q \in 1..Len(quad_rule_of(m.element_type).points) |->
     Mul(quad_rule_of(m.element_type).weights[q],
         Abs(determinant(jacobian(ref_element_of(m.element_type),
                                  element_nodes(m.vertices, m.elements[e].indices),
                                  quad_rule_of(m.element_type).points[q]))))])

MeshArea(m) == SumSeq([e \in 1..Len(m.elements) |-> ElementArea(m, e)])

\* |det J| / 2 of triangle e, J taken at the first quadrature point
HalfDeterminant(m, e) ==
  Mul(Half, Abs(determinant(jacobian("Tri3", element_nodes(m.vertices, m.elements[e].indices),
                                     triangle(2).points[1]))))

\* C30: assembled with the constant source f = c on elements that are not
\* degenerate, the entries of b sum to c times the total area, the area being the
\* sum over the elements of the quadrature-integrated |det J|, which is
\* |det J| / 2 for a triangle, on either backend
C30_LoadSumsToSourceTimesArea ==
  (pc = "assembled" /\ source_fn \in {"zero", "one"} /\ ~HasSingularJacobian(mesh)) =>
    /\ SumSeq(AsSeq(b, NumVertices)) = Mul(Apply(source_fn, Zero, Zero), MeshArea(mesh))
    /\ mesh.element_type = "P1" =>
         \A e \in 1..Len(mesh.elements) : ElementArea(mesh, e) = HalfDeterminant(mesh, e)

\* a mesh of several elements has been assembled with the source f = 1 and the
\* load sums to the area of the mesh, which is not 0
C30_Witness ==
  /\ pc = "assembled" /\ source_fn = "one" /\ Len(mesh.elements) > 1
  /\ ~HasSingularJacobian(mesh)
  /\ SumSeq(AsSeq(b, NumVertices)) = MeshArea(mesh)
  /\ Sign(MeshArea(mesh)) > 0

=============================================================================
